---- MODULE Spec2Model ----
(***************************************************************************)
(* Iterated Prisoner's Dilemma engine (iterative_prisoner_dilemma.py).     *)
(*                                                                         *)
(* The state is one IPDEngine with its two strategies and its two         *)
(* StrategyReport objects, the frame of the play_game / play_round call   *)
(* in progress, and what the caller holds (the last returned Report).     *)
(* play_round is modelled call by call (take_turn, take_turn,             *)
(* compute_payoff, notify, notify, register, register): the program is    *)
(* single-threaded, so the steps of one call follow each other with no    *)
(* interleaving, and the caller acts only when no call is in progress.    *)
(***************************************************************************)
EXTENDS Integers, Sequences, FiniteSets

\* ---------------------------------------------------------------- bounds

\* Rounds one engine plays in a behaviour (caps the engine's counters).
MaxRounds == 4

\* Probabilities and rng.random() draws are multiples of 1/ProbDen.
ProbDen == 2

\* ------------------------------------------------------- program constants

\* IPDEngine.MAX_N_TURN
MAX_N_TURN == 10000

\* The round count of the module's entry point: play_game(100)
ENTRY_N_TURNS == 100

\* ------------------------------------------------------------ Action, None

\* None where the other values are strings (an Optional[Action], a winner)
None == "None"

\* A name that is not bound yet, or a frame that does not exist: the record
\* with no fields.
Unbound == <<>>

COOPERATE == "cooperate"

DEFECT == "defect"

Action == {COOPERATE, DEFECT}

\* An exception raised instead of a value returned.
Raised(e) == [raised |-> e]

IsRaised(v) == "raised" \in DOMAIN v

ZeroDivisionError == Raised("ZeroDivisionError")

\* ------------------------------------------------------------ pure helpers

Min(a, b) == IF a < b THEN a ELSE b

\* Mutant of compute_payoff: the Defect/Cooperate pair in the wrong order.
compute_payoff_swapped(self, other_action) ==
    IF self = COOPERATE /\ other_action = COOPERATE THEN <<3, 3>>
    ELSE IF self = DEFECT /\ other_action = COOPERATE THEN <<0, 5>>
    ELSE IF self = COOPERATE /\ other_action = DEFECT THEN <<0, 5>>
    ELSE <<1, 1>>

\* Mutant of compute_payoff: mutual defection pays like mutual cooperation
\* to the first player.
compute_payoff_dd(self, other_action) ==
    IF self = COOPERATE /\ other_action = COOPERATE THEN <<3, 3>>
    ELSE IF self = DEFECT /\ other_action = COOPERATE THEN <<5, 0>>
    ELSE IF self = COOPERATE /\ other_action = DEFECT THEN <<0, 5>>
    ELSE <<3, 1>>

\* Mutant of compute_payoff: the Cooperate/Defect branch is missing.
compute_payoff_no_branch(self, other_action) ==
    IF self = COOPERATE /\ other_action = COOPERATE THEN <<3, 3>>
    ELSE IF self = DEFECT /\ other_action = COOPERATE THEN <<5, 0>>
    ELSE <<1, 1>>

\* Action.compute_payoff(self, other_action) -> (gain of self, gain of other)
compute_payoff(self, other_action) ==
    IF self = COOPERATE /\ other_action = COOPERATE THEN <<3, 3>>
    ELSE IF self = DEFECT /\ other_action = COOPERATE THEN <<5, 0>>
    ELSE IF self = COOPERATE /\ other_action = DEFECT THEN <<0, 5>>
    ELSE <<1, 1>>

\* StrategyReport(): total_gain = 0, action_histogram = defaultdict(int), no key
NewStrategyReport == [total_gain |-> 0, action_histogram |-> <<>>]

\* defaultdict(int)[action] += 1: a missing key starts from 0
HistogramIncrement(h, action) ==
    [k \in DOMAIN h \cup {action} |->
        IF k = action
        THEN (IF action \in DOMAIN h THEN h[action] ELSE 0) + 1
        ELSE h[k]]

\* StrategyReport.notify(action, payoff)
notify(r, action, payoff) ==
    [total_gain |-> r.total_gain + payoff,
     action_histogram |-> HistogramIncrement(r.action_histogram, action)]

\* sum(d.values())
RECURSIVE SumValues(_, _)
SumValues(h, keys) ==
    IF keys = {} THEN 0
    ELSE LET k == CHOOSE x \in keys : TRUE
         IN h[k] + SumValues(h, keys \ {k})

\* StrategyReport.n_rounds
n_rounds(r) == SumValues(r.action_histogram, DOMAIN r.action_histogram)

\* Mutant of average_gain: zero rounds give the number 0, not an exception.
average_gain_sentinel(r) ==
    IF n_rounds(r) = 0 THEN [num |-> 0, den |-> 1]
    ELSE [num |-> r.total_gain, den |-> n_rounds(r)]

\* StrategyReport.average_gain: total_gain / n_rounds, the quotient kept as
\* the fraction it is; a zero divisor raises ZeroDivisionError.
average_gain(r) ==
    IF n_rounds(r) = 0 THEN ZeroDivisionError
    ELSE [num |-> r.total_gain, den |-> n_rounds(r)]

\* -------------------------------------------------------------- strategies

\* A strategy object is the record of its class and its own attributes.
UniformStrategy == [kind |-> "UniformStrategy"]

CooperativeStrategy == [kind |-> "CooperativeStrategy"]

DefectStrategy == [kind |-> "DefectStrategy"]

\* ReplayStrategy.__init__(first_action)
ReplayStrategy(first_action) ==
    [kind |-> "ReplayStrategy", first_action |-> first_action,
     last_opponent_action |-> None]

\* RandomStrategy.__init__(p_cooperate), p_cooperate = p / ProbDen
RandomStrategy(p) == [kind |-> "RandomStrategy", p_cooperate |-> p]

\* The strategy objects a caller can construct (probabilities in [0, 1]).
Strategies ==
    {UniformStrategy, CooperativeStrategy, DefectStrategy}
        \cup {ReplayStrategy(a) : a \in Action}
        \cup {RandomStrategy(p) : p \in 0..ProbDen}

\* rng.random(): a float in [0, 1), as a multiple of 1/ProbDen
RandomDraws == 0..(ProbDen - 1)

\* Mutant of ReplayTakeTurn: the first action is played in every round.
ReplayTakeTurn_first(s) == s.first_action

\* ReplayStrategy.take_turn
ReplayTakeTurn(s) ==
    IF s.last_opponent_action = None THEN s.first_action
    ELSE s.last_opponent_action

\* RandomStrategy.take_turn, for the draw r of rng.random()
RandomTakeTurn(s, r) ==
    IF r < s.p_cooperate THEN COOPERATE ELSE DEFECT

\* Mutant of take_turn: DefectStrategy's method returns Cooperate (copied
\* from CooperativeStrategy and not edited).
take_turn_copied(s) ==
    CASE s.kind = "UniformStrategy" -> Action
      [] s.kind = "CooperativeStrategy" -> {COOPERATE}
      [] s.kind = "DefectStrategy" -> {COOPERATE}
      [] s.kind = "ReplayStrategy" -> {ReplayTakeTurn(s)}
      [] s.kind = "RandomStrategy" -> {RandomTakeTurn(s, r) : r \in RandomDraws}

\* Strategy.take_turn by dynamic dispatch: the set of actions the call can
\* return (the random strategies have more than one).
take_turn(s) ==
    CASE s.kind = "UniformStrategy" -> Action
      [] s.kind = "CooperativeStrategy" -> {COOPERATE}
      [] s.kind = "DefectStrategy" -> {DEFECT}
      [] s.kind = "ReplayStrategy" -> {ReplayTakeTurn(s)}
      [] s.kind = "RandomStrategy" -> {RandomTakeTurn(s, r) : r \in RandomDraws}

\* Mutant of register_opponent_action: ReplayStrategy's override is missing.
register_opponent_action_noop(s, action) == s

\* Strategy.register_opponent_action by dynamic dispatch: ReplayStrategy
\* overrides it, the base class's is a no-op.
register_opponent_action(s, action) ==
    IF s.kind = "ReplayStrategy"
    THEN [s EXCEPT !.last_opponent_action = action]
    ELSE s

\* ------------------------------------------------------------------ state

VARIABLES
    p1, p2,              \* IPDEngine._p1, ._p2: the two strategy objects
    report_1, report_2,  \* IPDEngine._report_1, ._report_2
    pc,                  \* where the program is: "idle" (in the caller),
                         \* "loop" (play_game's for), or a step of play_round
    game,                \* play_game's frame [given, n_turns, i, before]
    locals,              \* play_round's frame: act_p1, act_p2, payoff_1,
                         \* payoff_2, each a field once it is assigned
    report,              \* the Report the caller got from the last play_game
    printed,             \* what the caller's last print(report) produced
    calls,               \* history: how often each step of play_round ran
    last_call,           \* history: the last play_game call, once returned
    snapshot,            \* history: what `report` showed when it was returned
    prev_round,          \* history: the round completed before last_round
    last_round           \* history: the last completed round (its locals)

vars == <<p1, p2, report_1, report_2, pc, game, locals, report, printed,
          calls, last_call, snapshot, prev_round, last_round>>

\* The calls play_round makes, in the order of its lines.
RoundSteps ==
    <<"take_p1", "take_p2", "payoff", "notify_1", "notify_2",
      "register_p1", "register_p2">>

\* `calls` with one more call of `step` counted.
Called(step) == [calls EXCEPT ![step] = @ + 1]

\* ----------------------------------------------------------------- Report

\* Report(self._p1, self._report_1, self._p2, self._report_2): the four
\* fields are references to the engine's own objects, not copies.
NewReport ==
    [p1 |-> "p1", strategy_report_p1 |-> "report_1",
     p2 |-> "p2", strategy_report_p2 |-> "report_2"]

\* The StrategyReport object a reference points to, as it is now.
Deref(ref) == IF ref = "report_1" THEN report_1 ELSE report_2

\* Mutant of winner: the two players exchanged.
winner_swapped(rep) ==
    LET gain_1 == Deref(rep.strategy_report_p1).total_gain
        gain_2 == Deref(rep.strategy_report_p2).total_gain
    IN IF gain_1 = gain_2 THEN None
       ELSE IF gain_1 > gain_2 THEN rep.p2
       ELSE rep.p1

\* Mutant of winner: the tie is not tested, so a tie falls to player 2.
winner_no_tie(rep) ==
    LET gain_1 == Deref(rep.strategy_report_p1).total_gain
        gain_2 == Deref(rep.strategy_report_p2).total_gain
    IN IF gain_1 > gain_2 THEN rep.p1
       ELSE rep.p2

\* Report.winner: a reference to a strategy object, or None
winner(rep) ==
    LET gain_1 == Deref(rep.strategy_report_p1).total_gain
        gain_2 == Deref(rep.strategy_report_p2).total_gain
    IN IF gain_1 = gain_2 THEN None
       ELSE IF gain_1 > gain_2 THEN rep.p1
       ELSE rep.p2

\* Report.__str__: the fields of the rendering, or the exception raised
\* while it is built.
ReportStr(rep) ==
    LET w == winner(rep)
        win_str == IF w = rep.p2 THEN "(P2)"
                   ELSE IF w = rep.p1 THEN "(P1)" ELSE ""
        r1 == Deref(rep.strategy_report_p1)
        r2 == Deref(rep.strategy_report_p2)
    IN IF IsRaised(average_gain(r1)) THEN average_gain(r1)
       ELSE IF IsRaised(average_gain(r2)) THEN average_gain(r2)
       ELSE [winner |-> w, win_str |-> win_str,
             n_rounds |-> n_rounds(r1),
             average_gain_p1 |-> average_gain(r1),
             average_gain_p2 |-> average_gain(r2),
             action_histogram_p1 |-> r1.action_histogram,
             action_histogram_p2 |-> r2.action_histogram]

\* What a Report shows to a reader: gains, histograms, round counts, winner.
ReportView(rep) ==
    [total_gain_p1 |-> Deref(rep.strategy_report_p1).total_gain,
     total_gain_p2 |-> Deref(rep.strategy_report_p2).total_gain,
     action_histogram_p1 |-> Deref(rep.strategy_report_p1).action_histogram,
     action_histogram_p2 |-> Deref(rep.strategy_report_p2).action_histogram,
     n_rounds_p1 |-> n_rounds(Deref(rep.strategy_report_p1)),
     n_rounds_p2 |-> n_rounds(Deref(rep.strategy_report_p2)),
     winner |-> winner(rep)]

\* ------------------------------------------------------------------- Init

\* IPDEngine.__init__(player_1, player_2): two strategy objects of the
\* caller's choice, two new StrategyReports; nothing called yet.
EngineInit(player_1, player_2) ==
    /\ p1 = player_1
    /\ p2 = player_2
    /\ report_1 = NewStrategyReport
    /\ report_2 = NewStrategyReport
    /\ pc = "idle"
    /\ game = Unbound
    /\ locals = Unbound
    /\ report = Unbound
    /\ printed = Unbound
    /\ calls = [step \in {RoundSteps[k] : k \in DOMAIN RoundSteps} |-> 0]
    /\ last_call = Unbound
    /\ snapshot = Unbound
    /\ prev_round = Unbound
    /\ last_round = Unbound

Init == \E player_1 \in Strategies, player_2 \in Strategies :
            EngineInit(player_1, player_2)

\* -------------------------------------------------------------- play_game

\* Mutant of RangeHasNext: one iteration too many.
RangeHasNext_inclusive(i, n_turns) == i <= n_turns

\* range(n_turns) still has an element after i iterations
RangeHasNext(i, n_turns) == i < n_turns

\* Mutant of EnterPlayGame: every game starts from two new StrategyReports.
EnterPlayGame_reset(given, n_turns) ==
    /\ pc = "idle"
    /\ pc' = "loop"
    /\ game' = [given |-> given, n_turns |-> n_turns, i |-> 0,
                before |-> n_rounds(report_1)]
    /\ report_1' = NewStrategyReport
    /\ report_2' = NewStrategyReport
    /\ printed' = Unbound
    /\ last_call' = Unbound
    /\ UNCHANGED <<p1, p2, locals, report, calls, snapshot, prev_round,
                   last_round>>

\* The entry of play_game with n_turns decided: the frame of the call.
\* `before` records the rounds the engine had already played (history).
EnterPlayGame(given, n_turns) ==
    /\ pc = "idle"
    /\ pc' = "loop"
    /\ game' = [given |-> given, n_turns |-> n_turns, i |-> 0,
                before |-> n_rounds(report_1)]
    /\ printed' = Unbound
    /\ last_call' = Unbound
    /\ UNCHANGED <<p1, p2, report_1, report_2, locals, report, calls,
                   snapshot, prev_round, last_round>>

\* play_game(n_turns) with the argument given: any integer, negative too.
\* The rounds the call would add stay within MaxRounds.
PlayGame ==
    \E n_turns \in (0 - 1)..MaxRounds :
        /\ n_rounds(report_1) + n_turns <= MaxRounds
        /\ EnterPlayGame(TRUE, n_turns)

\* play_game() with n_turns omitted: n_turns = rng.randint(1, MAX_N_TURN),
\* drawn among the values that stay within MaxRounds.
PlayGameDefault ==
    \E n_turns \in 1..Min(MAX_N_TURN, MaxRounds - n_rounds(report_1)) :
        EnterPlayGame(FALSE, n_turns)

\* for _ in range(n_turns): one more iteration calls play_round
LoopIter ==
    /\ pc = "loop"
    /\ RangeHasNext(game.i, game.n_turns)
    /\ game' = [game EXCEPT !.i = @ + 1]
    /\ pc' = "take_p1"
    /\ locals' = Unbound
    /\ UNCHANGED <<p1, p2, report_1, report_2, report, printed, calls,
                   last_call, snapshot, prev_round, last_round>>

\* The loop is over: return Report(...), which the caller binds to `report`.
LoopExit ==
    /\ pc = "loop"
    /\ ~RangeHasNext(game.i, game.n_turns)
    /\ report' = NewReport
    /\ snapshot' = ReportView(NewReport)
    /\ last_call' = game
    /\ game' = Unbound
    /\ pc' = "idle"
    /\ UNCHANGED <<p1, p2, report_1, report_2, locals, printed, calls,
                   prev_round, last_round>>

\* ------------------------------------------------------------- play_round

\* A direct call of play_round by the caller.
PlayRound ==
    /\ pc = "idle"
    /\ n_rounds(report_1) < MaxRounds
    /\ pc' = "take_p1"
    /\ locals' = Unbound
    /\ printed' = Unbound
    /\ last_call' = Unbound
    /\ UNCHANGED <<p1, p2, report_1, report_2, game, report, calls,
                   snapshot, prev_round, last_round>>

\* act_p1 = self._p1.take_turn()
TakeTurnP1 ==
    /\ pc = "take_p1"
    /\ \E a \in take_turn(p1) : locals' = [act_p1 |-> a]
    /\ pc' = "take_p2"
    /\ calls' = Called("take_p1")
    /\ UNCHANGED <<p1, p2, report_1, report_2, game, report, printed,
                   last_call, snapshot, prev_round, last_round>>

\* act_p2 = self._p2.take_turn()
TakeTurnP2 ==
    /\ pc = "take_p2"
    /\ \E a \in take_turn(p2) :
           locals' = [act_p1 |-> locals.act_p1, act_p2 |-> a]
    /\ pc' = "payoff"
    /\ calls' = Called("take_p2")
    /\ UNCHANGED <<p1, p2, report_1, report_2, game, report, printed,
                   last_call, snapshot, prev_round, last_round>>

\* payoff_1, payoff_2 = act_p1.compute_payoff(act_p2)
ComputePayoff ==
    /\ pc = "payoff"
    /\ LET payoff == compute_payoff(locals.act_p1, locals.act_p2)
       IN locals' = [act_p1 |-> locals.act_p1, act_p2 |-> locals.act_p2,
                     payoff_1 |-> payoff[1], payoff_2 |-> payoff[2]]
    /\ pc' = "notify_1"
    /\ calls' = Called("payoff")
    /\ UNCHANGED <<p1, p2, report_1, report_2, game, report, printed,
                   last_call, snapshot, prev_round, last_round>>

\* Mutant of Notify1: player 1 is credited with player 2's payoff.
Notify1_payoff_2 ==
    /\ pc = "notify_1"
    /\ report_1' = notify(report_1, locals.act_p1, locals.payoff_2)
    /\ pc' = "notify_2"
    /\ calls' = Called("notify_1")
    /\ UNCHANGED <<p1, p2, report_2, game, locals, report, printed,
                   last_call, snapshot, prev_round, last_round>>

\* self._report_1.notify(act_p1, payoff_1)
Notify1 ==
    /\ pc = "notify_1"
    /\ report_1' = notify(report_1, locals.act_p1, locals.payoff_1)
    /\ pc' = "notify_2"
    /\ calls' = Called("notify_1")
    /\ UNCHANGED <<p1, p2, report_2, game, locals, report, printed,
                   last_call, snapshot, prev_round, last_round>>

\* Mutant of Notify2: the second notify goes to _report_1 again.
Notify2_report_1 ==
    /\ pc = "notify_2"
    /\ report_1' = notify(report_1, locals.act_p2, locals.payoff_2)
    /\ pc' = "register_p1"
    /\ calls' = Called("notify_2")
    /\ UNCHANGED <<p1, p2, report_2, game, locals, report, printed,
                   last_call, snapshot, prev_round, last_round>>

\* self._report_2.notify(act_p2, payoff_2)
Notify2 ==
    /\ pc = "notify_2"
    /\ report_2' = notify(report_2, locals.act_p2, locals.payoff_2)
    /\ pc' = "register_p1"
    /\ calls' = Called("notify_2")
    /\ UNCHANGED <<p1, p2, report_1, game, locals, report, printed,
                   last_call, snapshot, prev_round, last_round>>

\* Mutant of RegisterP1: play_round returns after it, the feedback to
\* player 2 is missing.
RegisterP1_returns ==
    /\ pc = "register_p1"
    /\ p1' = register_opponent_action(p1, locals.act_p2)
    /\ pc' = IF game = Unbound THEN "idle" ELSE "loop"
    /\ calls' = Called("register_p1")
    /\ prev_round' = last_round
    /\ last_round' = locals
    /\ locals' = Unbound
    /\ UNCHANGED <<p2, report_1, report_2, game, report, printed,
                   last_call, snapshot>>

\* Mutant of RegisterP1: player 1 is told its own action.
RegisterP1_own ==
    /\ pc = "register_p1"
    /\ p1' = register_opponent_action(p1, locals.act_p1)
    /\ pc' = "register_p2"
    /\ calls' = Called("register_p1")
    /\ UNCHANGED <<p2, report_1, report_2, game, locals, report, printed,
                   last_call, snapshot, prev_round, last_round>>

\* self._p1.register_opponent_action(act_p2)
RegisterP1 ==
    /\ pc = "register_p1"
    /\ p1' = register_opponent_action(p1, locals.act_p2)
    /\ pc' = "register_p2"
    /\ calls' = Called("register_p1")
    /\ UNCHANGED <<p2, report_1, report_2, game, locals, report, printed,
                   last_call, snapshot, prev_round, last_round>>

\* self._p2.register_opponent_action(act_p1), then play_round returns: to
\* play_game's loop, or to the caller of a direct call.
RegisterP2 ==
    /\ pc = "register_p2"
    /\ p2' = register_opponent_action(p2, locals.act_p1)
    /\ pc' = IF game = Unbound THEN "idle" ELSE "loop"
    /\ calls' = Called("register_p2")
    /\ prev_round' = last_round
    /\ last_round' = locals
    /\ locals' = Unbound
    /\ UNCHANGED <<p1, report_1, report_2, game, report, printed,
                   last_call, snapshot>>

\* ------------------------------------------------------------- the caller

\* print(report): str(report), or the exception raised while rendering
PrintReport ==
    /\ pc = "idle"
    /\ report # Unbound
    /\ printed' = ReportStr(report)
    /\ UNCHANGED <<p1, p2, report_1, report_2, pc, game, locals, report,
                   calls, last_call, snapshot, prev_round, last_round>>

\* ----------------------------------------------------------- specification

Round ==
    \/ TakeTurnP1
    \/ TakeTurnP2
    \/ ComputePayoff
    \/ Notify1
    \/ Notify2
    \/ RegisterP1
    \/ RegisterP2

Next ==
    \/ PlayGame
    \/ PlayGameDefault
    \/ PlayRound
    \/ LoopIter
    \/ LoopExit
    \/ Round
    \/ PrintReport

Spec == Init /\ [][Next]_vars

\* The module's entry point:
\*   report = IPDEngine(ReplayStrategy(Action.DEFECT),
\*                      CooperativeStrategy()).play_game(100)
\*   print(report)
EntryInit == EngineInit(ReplayStrategy(DEFECT), CooperativeStrategy)

EntryPlayGame ==
    /\ report = Unbound
    /\ EnterPlayGame(TRUE, ENTRY_N_TURNS)

EntryPrintReport ==
    /\ printed = Unbound
    /\ PrintReport

EntryNext ==
    \/ EntryPlayGame
    \/ LoopIter
    \/ LoopExit
    \/ Round
    \/ EntryPrintReport

EntrySpec == EntryInit /\ [][EntryNext]_vars

\* ------------------------------------------------------------------ claims

\* A completed round, as play_round's locals were when it returned.
RoundOf(a1, a2, g1, g2) ==
    [act_p1 |-> a1, act_p2 |-> a2, payoff_1 |-> g1, payoff_2 |-> g2]

\* The steps of play_round at which payoff_1 and payoff_2 are assigned.
AfterPayoff == {"notify_1", "notify_2", "register_p1", "register_p2"}

\* No call is in progress: the caller can act and read.
AtCaller == pc = "idle"

\* Between rounds: no play_round is in progress.
BetweenRounds == pc \in {"idle", "loop"}

\* The last play_game call started on an engine that had played nothing.
ReturnedFromNew ==
    /\ AtCaller
    /\ last_call # Unbound
    /\ last_call.before = 0

\* How often a histogram counts an action (a missing key counts 0).
Count(h, a) == IF a \in DOMAIN h THEN h[a] ELSE 0

\* C1: whenever play_round has computed a payoff, the pair it got for the
\* actions (a, b) is the fixed matrix's: (C,C) -> (3,3), (D,C) -> (5,0),
\* (C,D) -> (0,5), (D,D) -> (1,1), first component for a, second for b.
C1_PayoffMatrix ==
    pc \in AfterPayoff =>
        LET a == locals.act_p1
            b == locals.act_p2
            got == <<locals.payoff_1, locals.payoff_2>>
        IN /\ (a = COOPERATE /\ b = COOPERATE) => got = <<3, 3>>
           /\ (a = DEFECT /\ b = COOPERATE) => got = <<5, 0>>
           /\ (a = COOPERATE /\ b = DEFECT) => got = <<0, 5>>
           /\ (a = DEFECT /\ b = DEFECT) => got = <<1, 1>>

\* C1 witness: a payoff computed for (Defect, Cooperate) right after a round
\* of (Cooperate, Defect).
C1_Witness ==
    /\ pc = "notify_1"
    /\ locals = RoundOf(DEFECT, COOPERATE, 5, 0)
    /\ last_round = RoundOf(COOPERATE, DEFECT, 0, 5)

\* C2: the payoff of a round is symmetric: computing it with the two actions
\* swapped gives the same two gains, swapped.
C2_PayoffSymmetric ==
    pc \in AfterPayoff =>
        compute_payoff(locals.act_p2, locals.act_p1)
            = <<locals.payoff_2, locals.payoff_1>>

\* C2 witness: a payoff computed for two different actions.
C2_Witness ==
    /\ pc = "notify_1"
    /\ locals.act_p1 = COOPERATE
    /\ locals.act_p2 = DEFECT

\* C3: when play_game(n), n >= 0, returns on an engine that had played
\* nothing, both StrategyReports of the Report have n_rounds = n, and each
\* histogram's Cooperate count plus Defect count is n.
C3_RoundCount ==
    (ReturnedFromNew /\ last_call.n_turns >= 0) =>
        LET r1 == Deref(report.strategy_report_p1)
            r2 == Deref(report.strategy_report_p2)
            n == last_call.n_turns
        IN /\ n_rounds(r1) = n
           /\ n_rounds(r2) = n
           /\ Count(r1.action_histogram, COOPERATE)
                + Count(r1.action_histogram, DEFECT) = n
           /\ Count(r2.action_histogram, COOPERATE)
                + Count(r2.action_histogram, DEFECT) = n

\* C3 witness: play_game(n) with n >= 2 has returned on a new engine.
C3_Witness ==
    /\ ReturnedFromNew
    /\ last_call.given
    /\ last_call.n_turns >= 2
    /\ n_rounds(report_1) >= 2

\* C4: Replay(Defect) against Cooperative for 100 rounds: round 1 is
\* (Defect, Cooperate) with payoffs (5, 0), every later round is
\* (Cooperate, Cooperate) with (3, 3); at the end the totals are 302 and 297
\* and the winner is player 1, the Replay strategy.
C4_Entry ==
    /\ (BetweenRounds /\ last_round # Unbound) =>
           last_round = IF n_rounds(report_1) = 1
                        THEN RoundOf(DEFECT, COOPERATE, 5, 0)
                        ELSE RoundOf(COOPERATE, COOPERATE, 3, 3)
    /\ (AtCaller /\ report # Unbound) =>
           /\ n_rounds(Deref(report.strategy_report_p1)) = 100
           /\ n_rounds(Deref(report.strategy_report_p2)) = 100
           /\ Deref(report.strategy_report_p1).total_gain = 302
           /\ Deref(report.strategy_report_p2).total_gain = 297
           /\ winner(report) = "p1"
           /\ p1.kind = "ReplayStrategy"

\* C4 witness: the game of 100 rounds has returned and was printed.
C4_Witness ==
    /\ AtCaller
    /\ report # Unbound
    /\ n_rounds(report_1) = 100
    /\ printed # Unbound

\* The action a Replay player must play in a round, given the round
\* completed before it (Unbound: none).
ReplayDue(s, before, opponent) ==
    IF before = Unbound THEN s.first_action ELSE before[opponent]

\* C5: a Replay(firstAction) player, in either seat, plays firstAction in
\* round 1 and in every later round the action its opponent played in the
\* round before; stated of the round in progress and of the last completed
\* round.
C5_Replay ==
    /\ (p1.kind = "ReplayStrategy" /\ pc \notin {"idle", "loop", "take_p1"})
           => locals.act_p1 = ReplayDue(p1, last_round, "act_p2")
    /\ (p2.kind = "ReplayStrategy" /\ pc \in {"payoff"} \cup AfterPayoff)
           => locals.act_p2 = ReplayDue(p2, last_round, "act_p1")
    /\ (p1.kind = "ReplayStrategy" /\ last_round # Unbound)
           => last_round.act_p1 = ReplayDue(p1, prev_round, "act_p2")
    /\ (p2.kind = "ReplayStrategy" /\ last_round # Unbound)
           => last_round.act_p2 = ReplayDue(p2, prev_round, "act_p1")

\* C5 witness: Replay(Cooperate) in seat 2 has answered a Uniform opponent's
\* Defect with Defect, and in the round in progress answers its Cooperate
\* with Cooperate.
C5_Witness ==
    /\ p2 \in {[ReplayStrategy(COOPERATE) EXCEPT !.last_opponent_action = a]
                 : a \in Action}
    /\ p1.kind = "UniformStrategy"
    /\ prev_round # Unbound
    /\ prev_round.act_p1 = DEFECT
    /\ last_round.act_p2 = DEFECT
    /\ pc = "notify_1"
    /\ locals.act_p2 = last_round.act_p1
    /\ locals.act_p2 = COOPERATE

\* C6: the winner of a returned Report is player 1 exactly when player 1's
\* total gain is strictly greater, player 2 exactly when player 2's is, and
\* None exactly when the totals are equal.
C6_Winner ==
    (AtCaller /\ report # Unbound) =>
        LET gain_1 == report_1.total_gain
            gain_2 == report_2.total_gain
        IN /\ winner(report) = "p1" <=> gain_1 > gain_2
           /\ winner(report) = "p2" <=> gain_2 > gain_1
           /\ winner(report) = None <=> gain_1 = gain_2

\* C6 witness: a returned Report whose winner is player 2.
C6_Witness ==
    /\ AtCaller
    /\ report # Unbound
    /\ report_2.total_gain > report_1.total_gain
    /\ winner(report) = "p2"

\* C7: two Cooperative strategies: every round is (Cooperate, Cooperate)
\* with payoffs (3, 3), both totals are 3n after n rounds, and a Report's
\* winner is None.
C7_CooperativeTie ==
    (p1 = CooperativeStrategy /\ p2 = CooperativeStrategy /\ BetweenRounds) =>
        LET n == n_rounds(report_1)
        IN /\ report_1.total_gain = 3 * n
           /\ report_2.total_gain = 3 * n
           /\ n >= 1 => last_round = RoundOf(COOPERATE, COOPERATE, 3, 3)
           /\ report # Unbound => winner(report) = None

\* C7 witness: two Cooperative strategies have played at least two rounds and
\* the caller holds the Report.
C7_Witness ==
    /\ p1 = CooperativeStrategy
    /\ p2 = CooperativeStrategy
    /\ AtCaller
    /\ report # Unbound
    /\ last_call # Unbound
    /\ last_call.n_turns >= 1
    /\ n_rounds(report_1) >= 2

\* C8: once play_game has returned a Report, what the Report shows (total
\* gains, histograms, round counts, winner) never changes, whatever the
\* engine does afterwards.
C8_ReportNeverMutated ==
    (AtCaller /\ report # Unbound) => ReportView(report) = snapshot

\* C9: play_game with a negative n_turns fails fast: no such call returns a
\* Report.
C9_NegativeFailsFast ==
    ~(AtCaller /\ last_call # Unbound /\ last_call.n_turns < 0
        /\ report # Unbound)

\* C10: play_game(0) on a new engine returns a Report with empty histograms,
\* total gains 0, n_rounds 0 and no winner; average_gain of either
\* StrategyReport, and the rendering of the Report, raise ZeroDivisionError.
C10_ZeroRounds ==
    (ReturnedFromNew /\ last_call.n_turns = 0) =>
        /\ report # Unbound
        /\ LET r1 == Deref(report.strategy_report_p1)
               r2 == Deref(report.strategy_report_p2)
           IN /\ DOMAIN r1.action_histogram = {}
              /\ DOMAIN r2.action_histogram = {}
              /\ r1.total_gain = 0
              /\ r2.total_gain = 0
              /\ n_rounds(r1) = 0
              /\ n_rounds(r2) = 0
              /\ winner(report) = None
              /\ average_gain(r1) = ZeroDivisionError
              /\ average_gain(r2) = ZeroDivisionError
        /\ ReportStr(report) = ZeroDivisionError
        /\ printed # Unbound => printed = ZeroDivisionError

\* C10 witness: play_game(0) returned on a new engine and the caller's
\* print(report) raised.
C10_Witness ==
    /\ ReturnedFromNew
    /\ last_call.n_turns = 0
    /\ printed = ZeroDivisionError

\* C11: a play_game call returns after invoking play_round exactly n_turns
\* times, and when n_turns was omitted that number is in 1..MAX_N_TURN.
C11_ExactlyNTurns ==
    (AtCaller /\ last_call # Unbound) =>
        /\ last_call.i = last_call.n_turns
        /\ n_rounds(report_1) - last_call.before = last_call.n_turns
        /\ ~last_call.given => last_call.n_turns \in 1..MAX_N_TURN

\* The steps of play_round after act_p1, and after act_p2, is assigned.
AfterTakeP1 == {"take_p2", "payoff"} \cup AfterPayoff

AfterTakeP2 == {"payoff"} \cup AfterPayoff

\* What a player in `seat` with the fixed action `a` must show: the object
\* is as constructed, its take_turn can only return `a`, and `a` is what it
\* played in the round in progress and in the last two completed rounds.
AlwaysPlays(s, made, a, act, chosen) ==
    /\ s = made
    /\ take_turn(s) = {a}
    /\ pc \in chosen => locals[act] = a
    /\ last_round # Unbound => last_round[act] = a
    /\ prev_round # Unbound => prev_round[act] = a

\* C12: a Cooperative player always plays Cooperate and a Defect player
\* always Defect, in either seat, in every round and whatever the opponent
\* has played; the feedback leaves the strategy object as constructed.
C12_FixedStrategies ==
    /\ p1.kind = "CooperativeStrategy" =>
           AlwaysPlays(p1, CooperativeStrategy, COOPERATE, "act_p1", AfterTakeP1)
    /\ p1.kind = "DefectStrategy" =>
           AlwaysPlays(p1, DefectStrategy, DEFECT, "act_p1", AfterTakeP1)
    /\ p2.kind = "CooperativeStrategy" =>
           AlwaysPlays(p2, CooperativeStrategy, COOPERATE, "act_p2", AfterTakeP2)
    /\ p2.kind = "DefectStrategy" =>
           AlwaysPlays(p2, DefectStrategy, DEFECT, "act_p2", AfterTakeP2)

\* C12 witness: a Defect player in seat 1 was told Cooperate, then Defect, by
\* a Uniform opponent and plays Defect again in the third round.
C12_Witness ==
    /\ p1 = DefectStrategy
    /\ p2 = UniformStrategy
    /\ prev_round # Unbound
    /\ prev_round.act_p2 = COOPERATE
    /\ last_round.act_p2 = DEFECT
    /\ calls["register_p1"] >= 2
    /\ pc = "take_p2"
    /\ locals.act_p1 = DEFECT

\* C13: between rounds, however the rounds were started (play_game calls,
\* direct play_round calls, in any order), the two StrategyReports have the
\* same n_rounds.
C13_EqualRoundCounts ==
    BetweenRounds => n_rounds(report_1) = n_rounds(report_2)

\* C13 witness: a play_game call of at least one round, then a direct
\* play_round, have completed.
C13_Witness ==
    /\ AtCaller
    /\ report # Unbound
    /\ snapshot.n_rounds_p1 >= 1
    /\ last_call = Unbound
    /\ n_rounds(report_1) > snapshot.n_rounds_p1
    /\ n_rounds(report_2) >= 2

\* The feedback of the last completed round has reached player s: a Replay
\* player holds the opponent's action of that round.
FeedbackVisible(s, opponent) ==
    (s.kind = "ReplayStrategy" /\ last_round # Unbound) =>
        s.last_opponent_action = last_round[opponent]

\* C14: rounds are sequential: when a take_turn of round i+1 has been
\* invoked, both register_opponent_action calls of round i have been made,
\* and while the actions of a round are being chosen both players hold the
\* feedback of the round before.
C14_RoundsSequential ==
    /\ \A take \in {"take_p1", "take_p2"} :
           \A register \in {"register_p1", "register_p2"} :
               calls[take] <= calls[register] + 1
    /\ pc \in {"take_p1", "take_p2", "payoff"} =>
           /\ calls["register_p1"] = calls["register_p2"]
           /\ FeedbackVisible(p1, "act_p2")
           /\ FeedbackVisible(p2, "act_p1")

\* C14 witness: the third round's first take_turn has been invoked after two
\* rounds' feedback, with a Replay player in seat 2 holding the second
\* round's.
C14_Witness ==
    /\ pc = "take_p2"
    /\ calls["take_p1"] = 3
    /\ calls["register_p1"] = 2
    /\ calls["register_p2"] = 2
    /\ p2.kind = "ReplayStrategy"
    /\ p2.last_opponent_action = DEFECT
    /\ prev_round.act_p1 = COOPERATE

\* One step of play_round as C15 describes it: notify adds the player's own
\* payoff and counts the player's own action, on that player's report only;
\* the strategies change only in the register steps, each told the other's
\* action.
NotifiedWith(old, new, action, payoff) ==
    /\ new.total_gain = old.total_gain + payoff
    /\ \A a \in Action :
           Count(new.action_histogram, a)
               = Count(old.action_histogram, a) + (IF a = action THEN 1 ELSE 0)

ToldAction(old, new, action) ==
    IF old.kind = "ReplayStrategy"
    THEN /\ new.kind = old.kind
         /\ new.first_action = old.first_action
         /\ new.last_opponent_action = action
    ELSE new = old

RoundStepEffect ==
    /\ IF pc = "notify_1"
       THEN NotifiedWith(report_1, report_1', locals.act_p1, locals.payoff_1)
       ELSE report_1' = report_1
    /\ IF pc = "notify_2"
       THEN NotifiedWith(report_2, report_2', locals.act_p2, locals.payoff_2)
       ELSE report_2' = report_2
    /\ IF pc = "register_p1"
       THEN ToldAction(p1, p1', locals.act_p2)
       ELSE p1' = p1
    /\ IF pc = "register_p2"
       THEN ToldAction(p2, p2', locals.act_p1)
       ELSE p2' = p2
    /\ pc = "payoff" =>
           <<locals'.payoff_1, locals'.payoff_2>>
               = compute_payoff(locals.act_p1, locals.act_p2)

\* The calls of play_round come in the order of RoundSteps, each once per
\* round: a step has run once more than the next one exactly while the next
\* one is the call about to be made, and a round in progress has made its
\* first call once more than its last.
RoundStepOrder ==
    /\ \A k \in 1..(Len(RoundSteps) - 1) :
           calls[RoundSteps[k]] - calls[RoundSteps[k + 1]]
               = IF pc = RoundSteps[k + 1] THEN 1 ELSE 0
    /\ calls["take_p1"] - calls["register_p2"]
           = IF pc \in {RoundSteps[j] : j \in 2..Len(RoundSteps)}
             THEN 1 ELSE 0
    /\ n_rounds(report_1) = calls["notify_1"]
    /\ n_rounds(report_2) = calls["notify_2"]

\* C15: in one play_round the calls are take_turn of player 1, take_turn of
\* player 2, one compute_payoff, notify on report 1 then on report 2 (once
\* each, with that player's own action and payoff), then
\* register_opponent_action on player 1 and on player 2; no strategy object
\* changes before the register steps, so both actions of a round are chosen
\* without that round's feedback.
C15_RoundOrder == [](RoundStepOrder) /\ [][RoundStepEffect]_vars

\* C15 witness: in a second round of (Defect, Cooperate) both notifies have run
\* and no feedback of that round has been given yet.
C15_Witness ==
    /\ pc = "register_p1"
    /\ locals = RoundOf(DEFECT, COOPERATE, 5, 0)
    /\ calls["notify_2"] = 2
    /\ calls["register_p1"] = 1
    /\ p1.kind = "ReplayStrategy"
    /\ p1.last_opponent_action = DEFECT

\* total_gain of player 1 minus total_gain of player 2.
GainDifference == report_1.total_gain - report_2.total_gain

\* C16: between rounds, total_gain of player 1 minus that of player 2 is 5
\* times (player 1's Defect count minus player 2's); so a Report's winner is
\* the player who defected strictly more often and None exactly when both
\* defected equally often.
C16_DefectDifference ==
    BetweenRounds =>
        LET defect_1 == Count(report_1.action_histogram, DEFECT)
            defect_2 == Count(report_2.action_histogram, DEFECT)
        IN /\ GainDifference = 5 * (defect_1 - defect_2)
           /\ winner(NewReport) = "p1" <=> defect_1 > defect_2
           /\ winner(NewReport) = "p2" <=> defect_2 > defect_1
           /\ winner(NewReport) = None <=> defect_1 = defect_2

\* C16 witness: after four rounds player 2 has defected twice more than
\* player 1 and is 10 ahead.
C16_Witness ==
    /\ AtCaller
    /\ report # Unbound
    /\ n_rounds(report_1) = 4
    /\ Count(report_1.action_histogram, DEFECT) = 1
    /\ Count(report_2.action_histogram, DEFECT) = 3
    /\ GainDifference = 0 - 10
    /\ winner(report) = "p2"

\* C17: between rounds a Replay(Cooperate) player is level with its opponent
\* or 5 behind, so it is never the winner; a Replay(Defect) player, once a
\* round has been played, is level or 5 ahead. In either seat.
C17_ReplayMargin ==
    BetweenRounds =>
        /\ (p1.kind = "ReplayStrategy" /\ p1.first_action = COOPERATE) =>
               /\ GainDifference \in {0, 0 - 5}
               /\ winner(NewReport) # "p1"
        /\ (p2.kind = "ReplayStrategy" /\ p2.first_action = COOPERATE) =>
               /\ GainDifference \in {0, 5}
               /\ winner(NewReport) # "p2"
        /\ (p1.kind = "ReplayStrategy" /\ p1.first_action = DEFECT
                /\ n_rounds(report_1) >= 1) =>
               GainDifference \in {0, 5}
        /\ (p2.kind = "ReplayStrategy" /\ p2.first_action = DEFECT
                /\ n_rounds(report_2) >= 1) =>
               GainDifference \in {0, 0 - 5}

\* C17 witness: Replay(Cooperate) in seat 1 is 5 behind a Uniform opponent
\* after four rounds in which the opponent defected three times.
C17_Witness ==
    /\ BetweenRounds
    /\ p1.kind = "ReplayStrategy"
    /\ p1.first_action = COOPERATE
    /\ p2 = UniformStrategy
    /\ n_rounds(report_1) = 4
    /\ Count(report_2.action_histogram, DEFECT) = 3
    /\ GainDifference = 0 - 5

\* C18: Replay(a) against Replay(b): round k is (a, b) for odd k and (b, a)
\* for even k; for a # b the totals are equal after an even number of rounds
\* and differ by 5, in favour of the player whose first action is Defect,
\* after an odd number.
C18_ReplayVsReplay ==
    (p1.kind = "ReplayStrategy" /\ p2.kind = "ReplayStrategy"
        /\ BetweenRounds) =>
        LET k == n_rounds(report_1)
            a == p1.first_action
            b == p2.first_action
        IN /\ (k >= 1 /\ k % 2 = 1) =>
                  /\ last_round.act_p1 = a
                  /\ last_round.act_p2 = b
           /\ (k >= 1 /\ k % 2 = 0) =>
                  /\ last_round.act_p1 = b
                  /\ last_round.act_p2 = a
           /\ (a # b /\ k % 2 = 0) =>
                  /\ GainDifference = 0
                  /\ winner(NewReport) = None
           /\ (a # b /\ k % 2 = 1) =>
                  /\ GainDifference = IF a = DEFECT THEN 5 ELSE 0 - 5
                  /\ winner(NewReport) = IF a = DEFECT THEN "p1" ELSE "p2"

\* C18 witness: Replay(Cooperate) against Replay(Defect) after three rounds,
\* the second of them (Defect, Cooperate).
C18_Witness ==
    /\ p1.kind = "ReplayStrategy"
    /\ p1.first_action = COOPERATE
    /\ p2.kind = "ReplayStrategy"
    /\ p2.first_action = DEFECT
    /\ BetweenRounds
    /\ n_rounds(report_1) = 3
    /\ prev_round = RoundOf(DEFECT, COOPERATE, 5, 0)
    /\ last_round = RoundOf(COOPERATE, DEFECT, 0, 5)
    /\ GainDifference = 0 - 5

\* The strategies whose take_turn draws nothing at random.
Deterministic(s) ==
    s.kind \in {"CooperativeStrategy", "DefectStrategy", "ReplayStrategy"}

\* The strategy object as its constructor made it.
AsConstructed(s) ==
    IF s.kind = "ReplayStrategy" THEN ReplayStrategy(s.first_action) ELSE s

\* IPDEngine(player_1, player_2): the engine's four objects.
NewEngine(player_1, player_2) ==
    [p1 |-> player_1, p2 |-> player_2,
     report_1 |-> NewStrategyReport, report_2 |-> NewStrategyReport]

\* One whole play_round on an engine of deterministic strategies.
PlayRoundOn(eng) ==
    LET a1 == CHOOSE a \in take_turn(eng.p1) : TRUE
        a2 == CHOOSE a \in take_turn(eng.p2) : TRUE
        payoff == compute_payoff(a1, a2)
    IN [p1 |-> register_opponent_action(eng.p1, a2),
        p2 |-> register_opponent_action(eng.p2, a1),
        report_1 |-> notify(eng.report_1, a1, payoff[1]),
        report_2 |-> notify(eng.report_2, a2, payoff[2])]

\* play_game(n) on an engine: play_round n times in a row.
RECURSIVE PlayGameOn(_, _)
PlayGameOn(eng, n) ==
    IF n <= 0 THEN eng ELSE PlayGameOn(PlayRoundOn(eng), n - 1)

\* C19: the engine accumulates and is never reset: with deterministic
\* strategies, after any sequence of play_game and play_round calls that
\* played k rounds in all, the strategies and reports are those of one
\* play_game(k) on a new engine; so the Report of a play_game(b) called after
\* a rounds shows n_rounds = a + b.
C19_Accumulates ==
    (Deterministic(p1) /\ Deterministic(p2) /\ BetweenRounds) =>
        /\ [p1 |-> p1, p2 |-> p2, report_1 |-> report_1, report_2 |-> report_2]
               = PlayGameOn(NewEngine(AsConstructed(p1), AsConstructed(p2)),
                            n_rounds(report_1))
        /\ (AtCaller /\ last_call # Unbound /\ last_call.n_turns >= 0) =>
               /\ n_rounds(Deref(report.strategy_report_p1))
                      = last_call.before + last_call.n_turns
               /\ n_rounds(Deref(report.strategy_report_p2))
                      = last_call.before + last_call.n_turns

\* C19 witness: Replay(Defect) against Defect: play_game(2) returned on an
\* engine that had already played two rounds, and the Report shows four.
C19_Witness ==
    /\ p1.kind = "ReplayStrategy"
    /\ p1.first_action = DEFECT
    /\ p2 = DefectStrategy
    /\ AtCaller
    /\ last_call # Unbound
    /\ last_call.before = 2
    /\ last_call.n_turns = 2
    /\ n_rounds(Deref(report.strategy_report_p1)) = 4

====
